---- MODULE Spec2Model ----
(***************************************************************************)
(* Rectangle detector (js/detector.js, js/utils.js).                       *)
(*                                                                         *)
(* Numbers.  JavaScript numbers that may be NaN are records                *)
(* [nan, v].  Real-valued quantities (distances, tolerance, confidence,    *)
(* the aspect-ratio slider) are fixed-point integers in units of 1/Scale,  *)
(* rounded toward zero.  Ratios of integers that the code only compares    *)
(* against a threshold are compared exactly, by cross-multiplication.     *)
(*                                                                         *)
(* Images.  Stages 1-5 of the pipeline (grayscale, blur, edges, contour    *)
(* tracing, polygon approximation) are deterministic functions of the      *)
(* pixels.  In the detector an image is represented by what they deliver   *)
(* to stage 6: the polygons of its contours, in discovery (raster) order.  *)
(* The stages themselves are modelled on drawn images (a background and a  *)
(* frame in ink), one stage after the other and each on its own.           *)
(***************************************************************************)
EXTENDS Integers, Sequences, FiniteSets, TLC

VARIABLES
    \* RectangleDetector fields (detector.js:5-14)
    image, rectangles, imageScale, isProcessing,
    \* DOM state the detector reads and writes
    sliders, statusMessage, resultsVisible,
    \* the timer of performDetection, and the params of the latest run started
    timerPending, params,
    \* the handler that ran last
    lastOp,
    \* validateDetectionParams applied to one set of slider values
    pSliders, pParams, pValidation, pDone,
    \* validateRectangularShape applied to one polygon
    vPolygon, vMinArea, vMaxAspectRatio, vResult, vDone,
    \* filterOverlappingRectangles applied to one list, then to its own output
    fInput, fThreshold, fList, fOutput, fAgain, fStep,
    \* approximatePolygon applied to one contour, and the contours of its
    \* recursive calls still to be made (the next call last) and the number of
    \* calls made
    aContour, aResult, aDone, aStack, aCalls,
    \* one stage of the pipeline applied to one buffer
    sBuffer, sWidth, sHeight, sArg, sOut, sDone,
    \* detectRectanglesInImage on drawn images, stage by stage: the image and the
    \* parameters of the run, the stage reached, the locals gray, blurred, edges,
    \* contours and rectangles, and what each finished run was given and returned
    rImage, rParams, rStage, rGray, rBlurred, rEdges, rContours, rRectangles, rHistory

detVars == <<image, rectangles, imageScale, isProcessing, sliders, statusMessage,
             resultsVisible, timerPending, params, lastOp>>
parVars == <<pSliders, pParams, pValidation, pDone>>
valVars == <<vPolygon, vMinArea, vMaxAspectRatio, vResult, vDone>>
filVars == <<fInput, fThreshold, fList, fOutput, fAgain, fStep>>
polVars == <<aContour, aResult, aDone, aStack, aCalls>>
stgVars == <<sBuffer, sWidth, sHeight, sArg, sOut, sDone>>
runVars == <<rImage, rParams, rStage, rGray, rBlurred, rEdges, rContours, rRectangles,
             rHistory>>
vars == <<detVars, parVars, valVars, filVars, polVars, stgVars, runVars>>

----------------------------------------------------------------------------
(* Bounds of the model *)

\* fixed-point resolution: units per 1.0
Scale == 1000
\* largest inward displacement of a polygon vertex from its box corner
MaxOffset == 1
\* longest candidate list given to the overlap resolver on its own
MaxCandidates == 3
\* most rectangles in a generated grid image
MaxGrid == 11
\* longest contour given to approximatePolygon on its own
MaxContour == 5
\* largest width and height of a buffer given to one stage on its own
MaxSide == 6
\* largest width of a rectangle given to calculateOverlapRatio on its own
MaxExtent == 3
\* width of the largest block of edge pixels given to findContours on its own
MaxBlockWidth == 40
\* longest run of edge pixels in a mask given to findContours on its own
MaxSegment == 21
\* largest side of a uniform image the pipeline is run on
MaxUniformSide == 14
\* most calls of detectRectanglesInImage in a row
MaxRuns == 3
\* width of the small scenes
MaxSceneSide == 24
\* line widths of the 80x50 outline
MaxStroke == 1

(* Program constants *)

\* findRectanglesFromEdges stops collecting at this many candidates
CandidateLimit == 10
\* detectRectanglesInImage returns at most this many detections
ResultLimit == 10

----------------------------------------------------------------------------
(* Numbers *)

Num(n) == [nan |-> FALSE, v |-> n]
NaN == [nan |-> TRUE, v |-> 0]

\* a < b and a > b on JavaScript numbers: false when either is NaN
NumLt(a, b) == ~a.nan /\ ~b.nan /\ a.v < b.v
NumGt(a, b) == ~a.nan /\ ~b.nan /\ a.v > b.v

Min2(a, b) == IF a < b THEN a ELSE b
Max2(a, b) == IF a > b THEN a ELSE b

RECURSIVE SqrtSearch(_, _, _)
SqrtSearch(n, lo, hi) ==
    IF lo >= hi THEN lo
    ELSE LET mid == (lo + hi + 1) \div 2
         IN  IF mid * mid <= n THEN SqrtSearch(n, mid, hi)
                               ELSE SqrtSearch(n, lo, mid - 1)

\* floor of the square root of n >= 0
ISqrt(n) == SqrtSearch(n, 0, Min2(n, 46340))

\* the largest f in lo..hi with (r + f / Scale) ^ 2 <= r * r + rest
RECURSIVE FractionSearch(_, _, _, _)
FractionSearch(rest, r, lo, hi) ==
    IF lo >= hi THEN lo
    ELSE LET mid == (lo + hi + 1) \div 2
         IN  IF 2 * r * mid * Scale + mid * mid <= rest * Scale * Scale
             THEN FractionSearch(rest, r, mid, hi)
             ELSE FractionSearch(rest, r, lo, mid - 1)

\* Math.sqrt of an integer, in fixed point: the floor of sqrt(n) * Scale, found as
\* the whole part and then the fraction so that no product leaves 32 bits
FixSqrt(n) ==
    LET r == ISqrt(n)
    IN  r * Scale + FractionSearch(n - r * r, r, 0, Scale - 1)

RECURSIVE SeqMin(_)
SeqMin(s) == IF Len(s) = 1 THEN s[1] ELSE Min2(s[1], SeqMin(Tail(s)))
RECURSIVE SeqMax(_)
SeqMax(s) == IF Len(s) = 1 THEN s[1] ELSE Max2(s[1], SeqMax(Tail(s)))

----------------------------------------------------------------------------
(* Slider values and their parsing (detector.js getDetectionParameters) *)

Digits == <<"0", "1", "2", "3", "4", "5", "6", "7", "8", "9">>
IsDigit(c) == \E d \in 1..10 : Digits[d] = c
DigitVal(c) == (CHOOSE d \in 1..10 : Digits[d] = c) - 1

\* the longest prefix of s made of digits
RECURSIVE DigitPrefix(_)
DigitPrefix(s) ==
    IF s = <<>> \/ ~IsDigit(Head(s)) THEN <<>>
    ELSE <<Head(s)>> \o DigitPrefix(Tail(s))

RECURSIVE DecimalValue(_, _)
DecimalValue(s, acc) ==
    IF s = <<>> THEN acc ELSE DecimalValue(Tail(s), 10 * acc + DigitVal(Head(s)))

\* the value of the fraction digits s, in units of 1/Scale
RECURSIVE FractionValue(_, _)
FractionValue(s, unit) ==
    IF s = <<>> THEN 0
    ELSE DigitVal(Head(s)) * (unit \div 10) + FractionValue(Tail(s), unit \div 10)

\* parseInt(text): the leading digits, NaN when there are none
parseInt(text) ==
    LET ds == DigitPrefix(text)
    IN  IF ds = <<>> THEN NaN ELSE Num(DecimalValue(ds, 0))

\* parseFloat(text), in units of 1/Scale: digits, then optionally "." and digits
parseFloat(text) ==
    LET ds   == DigitPrefix(text)
        rest == SubSeq(text, Len(ds) + 1, Len(text))
        frac == IF rest # <<>> /\ Head(rest) = "." THEN DigitPrefix(Tail(rest)) ELSE <<>>
    IN  IF ds = <<>> /\ frac = <<>> THEN NaN
        ELSE Num(DecimalValue(ds, 0) * Scale + FractionValue(frac, Scale))

getDetectionParameters(s) ==
    [sensitivity |-> parseInt(s.sensitivity),
     minArea     |-> parseInt(s.minArea),
     aspectRatio |-> parseFloat(s.aspectRatio)]

----------------------------------------------------------------------------
(* ValidationUtils.validateDetectionParams *)

SensitivityError == "Sensitivity must be between 10 and 300"
MinAreaError     == "Minimum area must be between 100 and 50,000 pixels"
AspectRatioError == "Aspect ratio must be between 1 and 20"

SensitivityOutOfRange(p) ==
    NumLt(p.sensitivity, Num(10)) \/ NumGt(p.sensitivity, Num(300))
MinAreaOutOfRange(p) ==
    NumLt(p.minArea, Num(100)) \/ NumGt(p.minArea, Num(50000))
AspectRatioOutOfRange(p) ==
    NumLt(p.aspectRatio, Num(1 * Scale)) \/ NumGt(p.aspectRatio, Num(20 * Scale))

validateDetectionParams(p) ==
    IF SensitivityOutOfRange(p) THEN [valid |-> FALSE, error |-> SensitivityError]
    ELSE IF MinAreaOutOfRange(p) THEN [valid |-> FALSE, error |-> MinAreaError]
    ELSE IF AspectRatioOutOfRange(p) THEN [valid |-> FALSE, error |-> AspectRatioError]
    ELSE [valid |-> TRUE, error |-> ""]

----------------------------------------------------------------------------
(* validateRectangularShape (detector.js:520-575) *)

Null == [null |-> TRUE]

Xs(polygon) == [i \in 1..Len(polygon) |-> polygon[i][1]]
Ys(polygon) == [i \in 1..Len(polygon) |-> polygon[i][2]]

BoundingBox(polygon) ==
    [minX |-> SeqMin(Xs(polygon)), maxX |-> SeqMax(Xs(polygon)),
     minY |-> SeqMin(Ys(polygon)), maxY |-> SeqMax(Ys(polygon))]

Corners(b) == <<<<b.minX, b.minY>>, <<b.maxX, b.minY>>,
                <<b.maxX, b.maxY>>, <<b.minX, b.maxY>>>>

\* dx*dx + dy*dy
SquaredDistance(p, q) ==
    (p[1] - q[1]) * (p[1] - q[1]) + (p[2] - q[2]) * (p[2] - q[2])

\* Math.min over the four corners of Math.sqrt(dx*dx + dy*dy): the square root is
\* monotone, so the least distance is the root of the least squared distance
MinCornerDistance(p, corners) ==
    FixSqrt(SeqMin([c \in 1..4 |-> SquaredDistance(p, corners[c])]))

TotalDistance(polygon) ==
    LET corners == Corners(BoundingBox(polygon))
        d == [i \in 1..4 |-> MinCornerDistance(polygon[i], corners)]
    IN  d[1] + d[2] + d[3] + d[4]

AvgDistance(polygon) == TotalDistance(polygon) \div 4

\* Math.sqrt(area) * 0.1
Tolerance(area) == FixSqrt(area) \div 10

\* variant: the confidence without its lower clamp
ConfidenceUnclamped(avgDistance, tolerance) ==
    Scale - (avgDistance * Scale) \div tolerance

\* Math.max(0.3, 1 - avgDistance / tolerance)
Confidence(avgDistance, tolerance) ==
    Max2((3 * Scale) \div 10, Scale - (avgDistance * Scale) \div tolerance)

\* variant: width / height in place of the longer side over the shorter
AspectRatioExceedsSigned(width, height, maxAspectRatio) ==
    /\ ~maxAspectRatio.nan
    /\ IF height = 0 THEN width > 0 ELSE width * Scale > maxAspectRatio.v * height

\* Math.max(width, height) / Math.min(width, height) > maxAspectRatio, where a
\* zero divisor gives Infinity (or NaN for 0/0) and NaN compares false
AspectRatioExceeds(width, height, maxAspectRatio) ==
    LET hi == Max2(width, height)
        lo == Min2(width, height)
    IN  /\ ~maxAspectRatio.nan
        /\ IF lo = 0 THEN hi > 0 ELSE hi * Scale > maxAspectRatio.v * lo

\* variant: polygons of more than 4 vertices pass
FewerThanFourVertices(polygon) == Len(polygon) < 4

\* the "must have exactly 4 vertices" test
NotFourVertices(polygon) == Len(polygon) # 4

validateRectangularShape(polygon, minArea, maxAspectRatio) ==
    IF NotFourVertices(polygon) THEN Null
    ELSE
    LET b      == BoundingBox(polygon)
        width  == b.maxX - b.minX
        height == b.maxY - b.minY
        area   == width * height
        avgDistance == AvgDistance(polygon)
        tolerance   == Tolerance(area)
    IN  IF NumLt(Num(area), minArea) THEN Null
        ELSE IF AspectRatioExceeds(width, height, maxAspectRatio) THEN Null
        ELSE IF avgDistance < tolerance
        THEN [null |-> FALSE, x |-> b.minX, y |-> b.minY, width |-> width,
              height |-> height, area |-> area,
              confidence |-> Confidence(avgDistance, tolerance)]
        ELSE Null

----------------------------------------------------------------------------
(* createRectangleObject (detector.js:583-600) *)

\* Math.round of the non-negative ratio num/den: the nearest integer, halves up
RoundRatio(num, den) == (2 * num + den) \div (2 * den)

\* variant: the ids are numbered on across the calls of the detector
createRectangleObjectNumberedOn(rect, index) ==
    [id          |-> <<"RECT-", Len(rHistory) + index + 1>>,
     x           |-> rect.x,
     y           |-> rect.y,
     width       |-> rect.width,
     height      |-> rect.height,
     area        |-> rect.area,
     aspectRatio |-> RoundRatio(100 * rect.width, rect.height),
     confidence  |-> rect.confidence,
     center      |-> [x |-> RoundRatio(2 * rect.x + rect.width, 2),
                      y |-> RoundRatio(2 * rect.y + rect.height, 2)]]

createRectangleObject(rect, index) ==
    [id          |-> <<"RECT-", index + 1>>,
     x           |-> rect.x,
     y           |-> rect.y,
     width       |-> rect.width,
     height      |-> rect.height,
     area        |-> rect.area,
     \* in hundredths: Math.round((width / height) * 100) / 100
     aspectRatio |-> RoundRatio(100 * rect.width, rect.height),
     confidence  |-> rect.confidence,
     center      |-> [x |-> RoundRatio(2 * rect.x + rect.width, 2),
                      y |-> RoundRatio(2 * rect.y + rect.height, 2)]]

----------------------------------------------------------------------------
(* GeometryUtils (utils.js:175-232) *)

\* variant: the overlap measured against the larger of the two areas
LargerArea(rect1, rect2) ==
    Max2(rect1.width * rect1.height, rect2.width * rect2.height)

\* Math.min(rect1.width * rect1.height, rect2.width * rect2.height)
SmallerArea(rect1, rect2) ==
    Min2(rect1.width * rect1.height, rect2.width * rect2.height)

\* the overlap ratio as an exact fraction num/den
calculateOverlapRatio(rect1, rect2) ==
    LET x1 == Max2(rect1.x, rect2.x)
        y1 == Max2(rect1.y, rect2.y)
        x2 == Min2(rect1.x + rect1.width, rect2.x + rect2.width)
        y2 == Min2(rect1.y + rect1.height, rect2.y + rect2.height)
    IN  IF x2 <= x1 \/ y2 <= y1 THEN [num |-> 0, den |-> 1]
        ELSE [num |-> (x2 - x1) * (y2 - y1), den |-> SmallerArea(rect1, rect2)]

\* overlap > overlapThreshold, the threshold in units of 1/Scale
OverlapExceeds(rect, existing, overlapThreshold) ==
    LET overlap == calculateOverlapRatio(rect, existing)
    IN  overlap.num * Scale > overlapThreshold * overlap.den

\* variant: the comparator of an ascending sort
CompareAscending(a, b) == a.confidence - b.confidence

\* the comparator (a, b) => (b.confidence || 0) - (a.confidence || 0)
CompareConfidence(a, b) == b.confidence - a.confidence

\* variant: an unstable sort, r placed before the elements it compares equal to
RECURSIVE InsertBeforeEqual(_, _)
InsertBeforeEqual(sorted, r) ==
    IF sorted = <<>> THEN <<r>>
    ELSE IF CompareConfidence(sorted[Len(sorted)], r) < 0 THEN Append(sorted, r)
    ELSE Append(InsertBeforeEqual(SubSeq(sorted, 1, Len(sorted) - 1), r),
                sorted[Len(sorted)])

\* r placed behind every element that does not compare after it
RECURSIVE InsertSorted(_, _)
InsertSorted(sorted, r) ==
    IF sorted = <<>> THEN <<r>>
    ELSE IF CompareConfidence(sorted[Len(sorted)], r) <= 0 THEN Append(sorted, r)
    ELSE Append(InsertSorted(SubSeq(sorted, 1, Len(sorted) - 1), r), sorted[Len(sorted)])

\* Array.prototype.sort with the comparator: a stable sort
RECURSIVE SortByConfidence(_)
SortByConfidence(list) ==
    IF list = <<>> THEN <<>>
    ELSE InsertSorted(SortByConfidence(SubSeq(list, 1, Len(list) - 1)), list[Len(list)])

\* variant: a candidate is compared with the last accepted one only
RECURSIVE GreedyAcceptLastOnly(_, _, _, _)
GreedyAcceptLastOnly(sorted, i, filtered, overlapThreshold) ==
    IF i > Len(sorted) THEN filtered
    ELSE LET rect == sorted[i]
             isOverlapping == /\ filtered # <<>>
                              /\ OverlapExceeds(rect, filtered[Len(filtered)],
                                                overlapThreshold)
         IN  GreedyAcceptLastOnly(sorted, i + 1,
                                  IF isOverlapping THEN filtered
                                  ELSE Append(filtered, rect),
                                  overlapThreshold)

\* the greedy loop over the sorted list, from position i on
RECURSIVE GreedyAccept(_, _, _, _)
GreedyAccept(sorted, i, filtered, overlapThreshold) ==
    IF i > Len(sorted) THEN filtered
    ELSE LET rect == sorted[i]
             isOverlapping == \E k \in 1..Len(filtered) :
                                  OverlapExceeds(rect, filtered[k], overlapThreshold)
         IN  GreedyAccept(sorted, i + 1,
                          IF isOverlapping THEN filtered ELSE Append(filtered, rect),
                          overlapThreshold)

\* the caller's array after the call (sorted in place) and the array returned
filterOverlappingRectangles(list, overlapThreshold) ==
    LET sorted == SortByConfidence(list)
    IN  [rectangles |-> sorted,
         filtered   |-> GreedyAccept(sorted, 1, <<>>, overlapThreshold)]

----------------------------------------------------------------------------
(* ImageProcessor (utils.js:5-154).  A buffer of n pixels is a function on    *)
(* 0..n-1, indexed y * width + x as in the code.                              *)

\* the buffer with Value(i) at every index i of lo..hi, filled half by half
RECURSIVE FillBuffer(_, _, _)
FillBuffer(Value(_), lo, hi) ==
    IF lo > hi THEN <<>>
    ELSE IF lo = hi THEN lo :> Value(lo)
    ELSE LET mid == (lo + hi) \div 2
         IN  FillBuffer(Value, lo, mid) @@ FillBuffer(Value, mid + 1, hi)

\* Math.round of num / den for num >= 0, den > 0
RoundDiv(num, den) == (2 * num + den) \div (2 * den)

\* toGrayscale: data holds one <<red, green, blue>> per pixel (alpha is not read)
toGrayscale(data, width, height) ==
    FillBuffer(LAMBDA i : RoundDiv(299 * data[i][1] + 587 * data[i][2]
                                   + 114 * data[i][3], 1000),
               0, width * height - 1)

\* Math.exp(-4.5 * d * d / (radius * radius)) in units of 1/Scale, for d <= radius <= 2:
\* exp(-4.5) = 0.011109, exp(-1.125) = 0.324652
GaussianWeight(d, radius) ==
    IF d = 0 THEN Scale
    ELSE IF d = radius THEN (11109 * Scale) \div 1000000
    ELSE (324652 * (Scale \div 4)) \div 250000

\* generateGaussianKernel before its normalisation, which cancels in sum / weightSum;
\* sigma = radius / 3, so the exponent -(x * x) / (2 * sigma * sigma) is
\* -4.5 * x * x / (radius * radius)
generateGaussianKernel(radius) ==
    [i \in 0..(2 * radius) |->
        GaussianWeight(IF i < radius THEN radius - i ELSE i - radius, radius)]

\* the two inner loops of gaussianBlur over the kernel, from cell k on
RECURSIVE KernelSums(_, _, _, _, _, _, _)
KernelSums(gray, width, x, y, kernel, k, acc) ==
    LET kernelSize == Cardinality(DOMAIN kernel)
        offset == kernelSize \div 2
    IN  IF k = kernelSize * kernelSize THEN acc
        ELSE LET ky == k \div kernelSize
                 kx == k % kernelSize
                 pixelY == y + ky - offset
                 pixelX == x + kx - offset
                 weight == kernel[ky] * kernel[kx]
             IN  KernelSums(gray, width, x, y, kernel, k + 1,
                            [sum |-> acc.sum + gray[pixelY * width + pixelX] * weight,
                             weightSum |-> acc.weightSum + weight])

\* a pixel the loops do not reach keeps the 0 the buffer was created with
BorderValue(gray, i) == 0

gaussianBlur(gray, width, height, radius) ==
    LET kernel == generateGaussianKernel(radius)
        offset == (2 * radius + 1) \div 2
    IN  FillBuffer(
            LAMBDA i :
                LET x == i % width
                    y == i \div width
                IN  IF /\ y >= offset /\ y < height - offset
                       /\ x >= offset /\ x < width - offset
                    THEN LET s == KernelSums(gray, width, x, y, kernel, 0,
                                             [sum |-> 0, weightSum |-> 0])
                         IN  RoundDiv(s.sum, s.weightSum)
                    ELSE BorderValue(gray, i),
            0, width * height - 1)

\* magnitude > threshold for magnitude = Math.sqrt(gx * gx + gy * gy) and a
\* threshold that may be NaN: false for NaN, true below 0, and otherwise both sides
\* are non-negative, so their squares compare alike
MagnitudeExceeds(gx, gy, threshold) ==
    /\ ~threshold.nan
    /\ threshold.v < 0 \/ gx * gx + gy * gy > threshold.v * threshold.v

\* variant: the edge flag stored as 1
EdgeValueAsFlag(exceeds) == IF exceeds THEN 1 ELSE 0

\* magnitude > threshold ? 255 : 0
EdgeValue(exceeds) == IF exceeds THEN 255 ELSE 0

simpleEdgeDetection(gray, width, height, threshold) ==
    FillBuffer(
        LAMBDA i :
            LET x == i % width
                y == i \div width
            IN  IF y >= 1 /\ y < height - 1 /\ x >= 1 /\ x < width - 1
                THEN LET gx == gray[y * width + (x + 1)] - gray[y * width + (x - 1)]
                         gy == gray[(y + 1) * width + x] - gray[(y - 1) * width + x]
                     IN  EdgeValue(MagnitudeExceeds(gx, gy, threshold))
                ELSE 0,
        0, width * height - 1)

----------------------------------------------------------------------------
(* Polygon approximation (detector.js:428-511).  Points are <<x, y>> with     *)
(* integer coordinates; distances and perimeters are in units of 1/Scale.     *)

\* |n|
Abs(n) == IF n < 0 THEN -n ELSE n

\* num * Scale / den for num >= 0, den > 0, with no product that leaves 32 bits
ScaledQuotient(num, den) ==
    (num \div den) * Scale + ((num % den) * Scale) \div den

\* the distance from point to the segment lineStart-lineEnd.  param < 0 and
\* param > 1 are dot < 0 and dot > lenSq.  Between them the code projects the
\* point on the line and measures to the projection; that distance is
\* |A * D - B * C| / sqrt(lenSq), which is what is computed here.
pointToLineDistance(point, lineStart, lineEnd) ==
    LET A == point[1] - lineStart[1]
        B == point[2] - lineStart[2]
        C == lineEnd[1] - lineStart[1]
        D == lineEnd[2] - lineStart[2]
        dot == A * C + B * D
        lenSq == C * C + D * D
    IN  IF lenSq = 0 THEN FixSqrt(A * A + B * B)
        ELSE IF dot < 0 THEN FixSqrt(A * A + B * B)
        ELSE IF dot > lenSq
             THEN FixSqrt((point[1] - lineEnd[1]) * (point[1] - lineEnd[1])
                          + (point[2] - lineEnd[2]) * (point[2] - lineEnd[2]))
        ELSE ScaledQuotient(Abs(A * D - B * C) * Scale, FixSqrt(lenSq))

\* the loop of contourPerimeter for i from lo to hi (positions counted from 1):
\* the distances from point i - 1 to point i, summed; the range is halved so that
\* a long contour does not nest the evaluation deeply
RECURSIVE PerimeterBetween(_, _, _)
PerimeterBetween(contour, lo, hi) ==
    IF lo > hi THEN 0
    ELSE IF lo = hi
         THEN LET dx == contour[lo][1] - contour[lo - 1][1]
                  dy == contour[lo][2] - contour[lo - 1][2]
              IN  FixSqrt(dx * dx + dy * dy)
    ELSE LET mid == (lo + hi) \div 2
         IN  PerimeterBetween(contour, lo, mid) + PerimeterBetween(contour, mid + 1, hi)

\* the sum of the distances between consecutive points; the contour is not closed
contourPerimeter(contour) ==
    IF Len(contour) < 2 THEN 0 ELSE PerimeterBetween(contour, 2, Len(contour))

\* the loop of approximatePolygon over the inner points lo..hi: the first point
\* farthest from the segment start-end, found by halving the range; `distance >
\* maxDistance` keeps the earlier point when two are equally far
RECURSIVE FarthestBetween(_, _, _)
FarthestBetween(contour, lo, hi) ==
    IF lo = hi
    THEN [maxDistance |-> pointToLineDistance(contour[lo], contour[1],
                                              contour[Len(contour)]),
          maxIndex |-> lo]
    ELSE LET mid == (lo + hi) \div 2
             first == FarthestBetween(contour, lo, mid)
             second == FarthestBetween(contour, mid + 1, hi)
         IN  IF second.maxDistance > first.maxDistance THEN second ELSE first

\* maxDistance and maxIndex after the loop, for a contour of at least 3 points.
\* Positions count from 1 here and from 0 in the code, so index 1 stands for the
\* code's initial maxIndex 0, which stays when no inner point is off the segment.
FarthestPoint(contour) ==
    LET far == FarthestBetween(contour, 2, Len(contour) - 1)
    IN  IF far.maxDistance > 0 THEN far ELSE [maxDistance |-> 0, maxIndex |-> 1]

\* the threshold a contour is split on: epsilon * contourPerimeter(contour), with
\* epsilon in units of 1/Scale; the result is in units of 1/(Scale * Scale)
SplitThreshold(contour, epsilon) == epsilon * contourPerimeter(contour)

\* variant: a contour is split as soon as maxDistance reaches the threshold
ReachesThreshold(maxDistance, threshold) == maxDistance * Scale >= threshold

\* maxDistance > epsilon * this.contourPerimeter(contour)
ExceedsThreshold(maxDistance, threshold) == maxDistance * Scale > threshold

\* variant: both halves keep the point they share
JoinKeepingSharedPoint(leftPart, rightPart) == leftPart \o rightPart

\* leftPart.slice(0, -1).concat(rightPart)
JoinParts(leftPart, rightPart) == SubSeq(leftPart, 1, Len(leftPart) - 1) \o rightPart

RECURSIVE approximatePolygon(_, _)
approximatePolygon(contour, epsilon) ==
    IF Len(contour) < 3 THEN contour
    ELSE LET far == FarthestPoint(contour)
         IN  IF ExceedsThreshold(far.maxDistance, SplitThreshold(contour, epsilon))
             THEN JoinParts(
                      approximatePolygon(SubSeq(contour, 1, far.maxIndex), epsilon),
                      approximatePolygon(SubSeq(contour, far.maxIndex, Len(contour)),
                                         epsilon))
             ELSE <<contour[1], contour[Len(contour)]>>

\* the thresholds the calls of approximatePolygon compare with, the call on the
\* contour itself and the recursive calls on its parts
RECURSIVE SplitThresholds(_, _)
SplitThresholds(contour, epsilon) ==
    IF Len(contour) < 3 THEN {}
    ELSE LET far == FarthestPoint(contour)
             threshold == SplitThreshold(contour, epsilon)
         IN  IF ExceedsThreshold(far.maxDistance, threshold)
             THEN {threshold}
                  \cup SplitThresholds(SubSeq(contour, 1, far.maxIndex), epsilon)
                  \cup SplitThresholds(SubSeq(contour, far.maxIndex, Len(contour)), epsilon)
             ELSE {threshold}

\* the epsilon findRectanglesFromEdges passes: 0.02
PolygonEpsilon == (2 * Scale) \div 100

----------------------------------------------------------------------------
(* Contour tracing (detector.js:369-420).  `visited` is the set of the indexes   *)
(* whose flag is set.                                                            *)

\* traceContour stops at this many points
ContourLimit == 1000

\* the eight neighbours of (x, y), in the order they are pushed
Neighbours(x, y) ==
    <<<<x - 1, y - 1>>, <<x, y - 1>>, <<x + 1, y - 1>>,
      <<x - 1, y>>,                   <<x + 1, y>>,
      <<x - 1, y + 1>>, <<x, y + 1>>, <<x + 1, y + 1>>>>

\* variant: the walk goes on until the stack is empty
TraceGoesOnUncapped(t) == Len(t.stack) > 0

\* while (stack.length > 0 && contour.length < 1000)
TraceGoesOn(t) == Len(t.stack) > 0 /\ Len(t.contour) < ContourLimit

\* variant: a pixel already visited is taken again
TraceStepRevisiting(edges, width, height, t) ==
    LET top == t.stack[Len(t.stack)]
        x == top[1]
        y == top[2]
        rest == SubSeq(t.stack, 1, Len(t.stack) - 1)
    IN  IF x < 0 \/ x >= width \/ y < 0 \/ y >= height
        THEN [t EXCEPT !.stack = rest]
        ELSE IF edges[y * width + x] = 0
        THEN [t EXCEPT !.stack = rest]
        ELSE [stack |-> rest \o Neighbours(x, y),
              contour |-> Append(t.contour, <<x, y>>),
              visited |-> t.visited \cup {y * width + x}]

\* one iteration of the loop of traceContour
TraceStep(edges, width, height, t) ==
    LET top == t.stack[Len(t.stack)]
        x == top[1]
        y == top[2]
        rest == SubSeq(t.stack, 1, Len(t.stack) - 1)
    IN  IF x < 0 \/ x >= width \/ y < 0 \/ y >= height
        THEN [t EXCEPT !.stack = rest]
        ELSE IF (y * width + x) \in t.visited \/ edges[y * width + x] = 0
        THEN [t EXCEPT !.stack = rest]
        ELSE [stack |-> rest \o Neighbours(x, y),
              contour |-> Append(t.contour, <<x, y>>),
              visited |-> t.visited \cup {y * width + x}]

\* the loop of traceContour for at most k more iterations, run half by half
RECURSIVE TraceLoop(_, _, _, _, _)
TraceLoop(edges, width, height, t, k) ==
    IF k = 0 \/ ~TraceGoesOn(t) THEN t
    ELSE IF k = 1 THEN TraceStep(edges, width, height, t)
    ELSE TraceLoop(edges, width, height,
                   TraceLoop(edges, width, height, t, k \div 2), k - k \div 2)

\* the contour, and `visited` as the call leaves it.  Every iteration pops one
\* entry and at most 1 + 8 * 1000 are ever pushed.
traceContour(edges, visited, startX, startY, width, height) ==
    LET t == TraceLoop(edges, width, height,
                       [stack |-> <<<<startX, startY>>>>, contour |-> <<>>,
                        visited |-> visited],
                       1 + 8 * ContourLimit)
    IN  [contour |-> t.contour, visited |-> t.visited]

\* findContours keeps the contour: contour.length > 10
KeptByTracer(contour) == Len(contour) > 10

\* for (y = 1; y < height - 1; y++) for (x = 1; x < width - 1; x++): c.next is the
\* number of the interior pixel the loops are at, counted row by row from (1, 1)
ScanGoesOn(width, height, c) == c.next < (width - 2) * (height - 2)

\* the body of the two loops of findContours
ScanStep(edges, width, height, c) ==
    LET x == 1 + (c.next % (width - 2))
        y == 1 + (c.next \div (width - 2))
    IN  IF edges[y * width + x] = 0 \/ (y * width + x) \in c.visited
        THEN [c EXCEPT !.next = c.next + 1]
        ELSE LET t == traceContour(edges, c.visited, x, y, width, height)
             IN  [next |-> c.next + 1,
                  visited |-> t.visited,
                  contours |-> IF KeptByTracer(t.contour)
                               THEN Append(c.contours, t.contour) ELSE c.contours,
                  traced |-> Append(c.traced, t.contour)]

\* the two loops of findContours for at most k more pixels, run half by half
RECURSIVE ScanLoop(_, _, _, _, _)
ScanLoop(edges, width, height, c, k) ==
    IF k = 0 \/ ~ScanGoesOn(width, height, c) THEN c
    ELSE IF k = 1 THEN ScanStep(edges, width, height, c)
    ELSE ScanLoop(edges, width, height,
                  ScanLoop(edges, width, height, c, k \div 2), k - k \div 2)

\* the state of findContours at its return: `contours` is what it returns,
\* `traced` every contour it traced, kept or not
ScanContours(edges, width, height) ==
    LET start == [next |-> 0, visited |-> {}, contours |-> <<>>, traced |-> <<>>]
    IN  IF width < 3 \/ height < 3 THEN start
        ELSE ScanLoop(edges, width, height, start, (width - 2) * (height - 2))

findContours(edges, width, height) == ScanContours(edges, width, height).contours

\* findRectanglesFromEdges does not skip the contour: not contour.length < 20
PassedOn(contour) == ~(Len(contour) < 20)

\* the polygons findRectanglesFromEdges gives to validateRectangularShape
ContourPolygons(contours) ==
    LET passed == SelectSeq(contours, PassedOn)
    IN  [i \in 1..Len(passed) |-> approximatePolygon(passed[i], PolygonEpsilon)]

----------------------------------------------------------------------------
(* The pipeline (detector.js:278-360) *)

\* the pixels of a drawn image, as drawImage and getImageData deliver them: the
\* background, and in ink the frame of `stroke` pixels inside the box
getImageData(img) ==
    [i \in 0..(img.width * img.height - 1) |->
        LET x == i % img.width
            y == i \div img.width
            b == img.box
        IN  IF /\ x >= b[1] /\ x < b[1] + b[3] /\ y >= b[2] /\ y < b[2] + b[4]
               /\ \/ x < b[1] + img.stroke \/ x >= b[1] + b[3] - img.stroke
                  \/ y < b[2] + img.stroke \/ y >= b[2] + b[4] - img.stroke
            THEN img.ink ELSE img.background]

\* the blur radius detectRectanglesInImage passes
BlurRadius == 1

\* slice(0, n)
Slice(list, n) == SubSeq(list, 1, Min2(n, Len(list)))

\* whether the loop over the contours goes on once `count` candidates are kept
CollectMore(count) == count < CandidateLimit

\* the loop of findRectanglesFromEdges over the polygons, from position i on
RECURSIVE CollectRectangles(_, _, _, _, _)
CollectRectangles(polygons, i, found, minArea, maxAspectRatio) ==
    IF i > Len(polygons) THEN found
    ELSE LET rect == validateRectangularShape(polygons[i], minArea, maxAspectRatio)
             next == IF rect.null THEN found
                     ELSE Append(found, createRectangleObject(rect, Len(found)))
         IN  IF CollectMore(Len(next))
             THEN CollectRectangles(polygons, i + 1, next, minArea, maxAspectRatio)
             ELSE next

findRectanglesFromEdges(polygons, minArea, maxAspectRatio) ==
    CollectRectangles(polygons, 1, <<>>, minArea, maxAspectRatio)

\* the overlap threshold detectRectanglesInImage passes: 0.3
DefaultOverlapThreshold == (3 * Scale) \div 10

\* this.image is not null here: reading this.image.width of null throws
detectRectanglesInImage(img, p) ==
    LET found == findRectanglesFromEdges(img.polygons, p.minArea, p.aspectRatio)
        filtered == filterOverlappingRectangles(found, DefaultOverlapThreshold).filtered
    IN  Slice(filtered, ResultLimit)

\* what the promise of performDetection resolves with: a throw becomes []
performDetection(img, p) ==
    IF img.null THEN <<>> ELSE detectRectanglesInImage(img, p)

----------------------------------------------------------------------------
(* Inputs *)

\* every sequence over S of length at most n
SeqsUpTo(S, n) == UNION {[1..k -> S] : k \in 0..n}

\* the displacements of a vertex from its box corner, toward the inside
Offsets == {<<0, 0>>} \cup UNION {{<<d, 0>>, <<0, d>>, <<d, d>>} : d \in 1..MaxOffset}

\* the quadrilateral on the box (x, y, w, h) with vertex i displaced by o[i]
Quad(x, y, w, h, o) ==
    <<<<x + o[1][1], y + o[1][2]>>,         <<x + w - o[2][1], y + o[2][2]>>,
      <<x + w - o[3][1], y + h - o[3][2]>>, <<x + o[4][1], y + h - o[4][2]>>>>

\* q with n vertices: its first n, or q closed by repeating its first vertex
WithVertices(q, n) == IF n <= 4 THEN SubSeq(q, 1, n) ELSE Append(q, q[1])

ZeroOffsets == <<<<0, 0>>, <<0, 0>>, <<0, 0>>, <<0, 0>>>>

\* polygons given to validateRectangularShape on its own
ValidatorSizes == {<<10, 10>>, <<20, 10>>, <<10, 30>>, <<12, 9>>, <<0, 10>>, <<0, 0>>}
ValidatorOffsets ==
    UNION {{<<o1, o2, o3, o4>> : o3 \in {<<0, 0>>, o1}, o4 \in {<<0, 0>>, o2}} :
              o1 \in Offsets, o2 \in Offsets}
\* the diagonal of the box (x, y, w, h), there and back twice
RepeatedDiagonal(x, y, w, h) ==
    <<<<x, y>>, <<x + w, y + h>>, <<x, y>>, <<x + w, y + h>>>>
ValidatorPolygons ==
    {WithVertices(Quad(3, 4, s[1], s[2], o), n) :
        s \in ValidatorSizes, o \in ValidatorOffsets, n \in 3..5}
    \cup {RepeatedDiagonal(3, 4, s[1], s[2]) : s \in ValidatorSizes}
ValidatorMinAreas == {Num(100), Num(150), NaN}
ValidatorAspectRatios == {Num(Scale), Num(2 * Scale), NaN}

\* candidates given to filterOverlappingRectangles on its own: position and size
ResolverBoxes ==
    {<<0, 0, 10, 10>>, <<5, 0, 10, 10>>, <<8, 0, 10, 10>>, <<2, 2, 4, 4>>, <<0, 0, 0, 10>>}
ResolverConfidences == {(3 * Scale) \div 10, (6 * Scale) \div 10}
ResolverThresholds == {(3 * Scale) \div 10, (6 * Scale) \div 10}
ResolverShapes == ResolverBoxes \X ResolverConfidences

\* the candidate list for a sequence of shapes, built as the detector builds it
CandidateList(shapes) ==
    [i \in 1..Len(shapes) |->
        LET b == shapes[i][1]
        IN  createRectangleObject(
                [x |-> b[1], y |-> b[2], width |-> b[3], height |-> b[4],
                 area |-> b[3] * b[4], confidence |-> shapes[i][2]], i - 1)]
ResolverInputs == {CandidateList(sh) : sh \in SeqsUpTo(ResolverShapes, MaxCandidates)}

\* slider values given to validateDetectionParams on its own
SensitivityTexts == {<<>>, <<"9">>, <<"1", "0">>, <<"7", "5">>, <<"3", "0", "0">>,
                     <<"3", "0", "1">>}
MinAreaTexts == {<<>>, <<"9", "9">>, <<"1", "0", "0">>, <<"5", "0", "0", "0", "0">>,
                 <<"5", "0", "0", "0", "1">>}
AspectRatioTexts == {<<>>, <<"0", ".", "9">>, <<"1">>, <<"2", ".", "5">>, <<"2", "0">>,
                     <<"2", "0", ".", "1">>}

\* slider values the user moves between in the running detector
SliderTexts ==
    [sensitivity |-> {<<"9">>, <<"7", "5">>},
     minArea     |-> {<<>>, <<"1", "0", "0">>, <<"2", "0", "0">>},
     aspectRatio |-> {<<"1">>, <<"2", ".", "5">>}]
InitialSliders ==
    [sensitivity |-> <<"7", "5">>, minArea |-> <<"1", "0", "0">>,
     aspectRatio |-> <<"2", ".", "5">>]

\* the points of the contours given to approximatePolygon on its own
ContourPoints == {<<0, 0>>, <<30, 0>>, <<30, 1>>, <<15, 8>>, <<0, 1>>}

\* gray levels of generated buffers
GrayLevels == {0, 100, 255}

\* gray buffers of a given size: uniform ones, a ramp, a checkerboard, and a dark
\* dot in the middle of a light field
GrayBuffers(width, height) ==
    {[i \in 0..(width * height - 1) |-> c] : c \in GrayLevels}
    \cup {[i \in 0..(width * height - 1) |-> (40 * (i % width) + 10 * (i \div width)) % 256],
          [i \in 0..(width * height - 1) |-> 255 * (((i % width) + (i \div width)) % 2)],
          [i \in 0..(width * height - 1) |->
              IF i % width = width \div 2 /\ i \div width = height \div 2 THEN 0 ELSE 255]}

\* the radii gaussianBlur is applied with on its own; the pipeline passes 1
BlurRadii == {1, 2}

\* rectangles given to calculateOverlapRatio on its own: integer positions and
\* sizes, as the bounding boxes of pixel contours have them, and empty ones
OverlapBoxes ==
    {[x |-> x, y |-> y, width |-> w, height |-> h] :
        x \in 0..(MaxExtent - 1), y \in 0..1, w \in 0..MaxExtent, h \in 1..2}

\* the thresholds simpleEdgeDetection is applied with on its own
EdgeThresholds == {Num(-1), Num(0), Num(75), Num(300), Num(400), NaN}

\* edge masks of MaxSegment + 2 by 4 pixels: a horizontal run of n edge pixels in
\* the first interior row and one of m in the second, one empty column apart,
\* both inside the border ring
SegmentMask(n, m) ==
    [i \in 0..((MaxSegment + 2) * 4 - 1) |->
        LET x == i % (MaxSegment + 2)
            y == i \div (MaxSegment + 2)
        IN  IF \/ y = 1 /\ x >= 1 /\ x <= n
               \/ y = 2 /\ x >= n + 2 /\ x <= n + 1 + m
            THEN 255 ELSE 0]
SegmentMasks ==
    {SegmentMask(r[1], r[2]) :
        r \in {q \in (0..MaxSegment) \X (0..MaxSegment) :
                  q[2] = 0 \/ q[1] + 1 + q[2] <= MaxSegment}}

\* edge masks of width x height pixels with every interior pixel set except those
\* of the columns where x is a multiple of `gap` (no column for gap = 0)
BlockMask(width, height, gap) ==
    [i \in 0..(width * height - 1) |->
        LET x == i % width
            y == i \div width
        IN  IF /\ x >= 1 /\ x < width - 1 /\ y >= 1 /\ y < height - 1
               /\ (gap = 0 \/ x % gap # 0)
            THEN 255 ELSE 0]
BlockSizes == {<<5, 5>>, <<12, 7>>, <<MaxBlockWidth, 30>>}
BlockGaps == {0, 3, 20}

\* colours
White == <<255, 255, 255>>
Black == <<0, 0, 0>>
Grey  == <<100, 100, 100>>
Red   == <<255, 0, 0>>

\* a drawn image: a background, and in ink a frame `stroke` pixels thick just
\* inside the box <<x, y, width, height>>
Drawing(width, height, background, ink, box, stroke) ==
    [null |-> FALSE, width |-> width, height |-> height, background |-> background,
     ink |-> ink, box |-> box, stroke |-> stroke]

\* uniform images: nothing is drawn on the background
Uniform(width, height, colour) ==
    Drawing(width, height, colour, colour, <<0, 0, 0, 0>>, 0)
UniformSizes == {<<1, 1>>, <<3, 3>>, <<8, 8>>, <<MaxUniformSide, 13>>,
                 <<13, MaxUniformSide>>}
UniformImages ==
    {Uniform(s[1], s[2], c) : s \in UniformSizes, c \in {White, Black, Grey, Red}}

\* parameters of the domain that runs on drawn images are given
RunParams ==
    {[sensitivity |-> Num(s), minArea |-> Num(100), aspectRatio |-> Num(a * Scale)] :
        s \in {10, 75, 300}, a \in {1, 5}}

\* the 200x150 white image with one black 80x50 rectangle outline, its line
\* `stroke` pixels thick, and the parameters it is processed with
OutlineScene(stroke) == Drawing(200, 150, White, Black, <<60, 50, 80, 50>>, stroke)
OutlineParams ==
    [sensitivity |-> Num(75), minArea |-> Num(100), aspectRatio |-> Num(5 * Scale)]

\* smaller scenes of the same kind: an outline or a filled box on a background
SmallScenes ==
    {Drawing(MaxSceneSide, 20, bg, ink, box, stroke) :
        bg \in {White, Grey}, ink \in {Black}, box \in {<<4, 4, 14, 10>>, <<6, 3, 12, 12>>},
        stroke \in {1, 2, 6}}

\* images: their polygons
Picture(polygons) == [null |-> FALSE, polygons |-> polygons]
Square    == Quad(0, 0, 10, 10, ZeroOffsets)
Skewed    == Quad(5, 0, 10, 10, <<<<1, 0>>, <<0, 0>>, <<0, 0>>, <<0, 0>>>>)
Wide      == Quad(30, 0, 20, 10, <<<<1, 1>>, <<1, 1>>, <<0, 0>>, <<0, 0>>>>)
Triangle  == WithVertices(Quad(0, 20, 10, 10, ZeroOffsets), 3)
Tall      == Quad(60, 0, 10, 20, ZeroOffsets)
PoolImages ==
    { Picture(<<>>),
      Picture(<<Square, Skewed>>),
      Picture(<<Skewed, Square>>),
      Picture(<<Wide, Triangle, Tall>>),
      Picture(<<Skewed, Wide, Square>>) }

\* a row of n separate 10x10 rectangles; all but the last have one vertex off
GridPolygon(i, n) ==
    Quad(20 * (i - 1), 0, 10, 10,
         IF i = n THEN ZeroOffsets ELSE <<<<1, 0>>, <<0, 0>>, <<0, 0>>, <<0, 0>>>>)
GridImages == {Picture([i \in 1..n |-> GridPolygon(i, n)]) : n \in (CandidateLimit - 1)..MaxGrid}

Images == PoolImages \cup GridImages

\* the images of the detector whose timer is followed to its firing
LiveImages == {Picture(<<>>), Picture(<<Square, Skewed>>)}

\* the parameters of repeated calls
RepeatParams == {p \in RunParams : p.sensitivity = Num(75)}

----------------------------------------------------------------------------
(* The detector *)

Status(text, type) == [text |-> text, type |-> type]

\* the detector's handlers leave the stand-alone applications alone
PureIdle == UNCHANGED <<parVars, valVars, filVars, polVars, stgVars, runVars>>

DetInit ==
    /\ image = Null
    /\ rectangles = <<>>
    /\ imageScale = "null"
    /\ isProcessing = FALSE
    /\ sliders = InitialSliders
    /\ statusMessage = Status("", "")
    /\ resultsVisible = FALSE
    /\ timerPending = FALSE
    /\ params = Null
    /\ lastOp = "constructor"

\* loadImage with a file that passes validateImageFile, through img.onload
LoadImage(img) ==
    /\ image' = img
    /\ imageScale' = "scale"
    /\ resultsVisible' = FALSE
    /\ statusMessage' = Status("Image loaded", "success")
    /\ lastOp' = "loadImage"
    /\ UNCHANGED <<rectangles, isProcessing, sliders, timerPending, params>>
    /\ PureIdle

\* loadImage with a file that validateImageFile rejects
LoadImageRejected ==
    /\ statusMessage' = Status("Please select a valid image file", "error")
    /\ lastOp' = "loadImage"
    /\ UNCHANGED <<image, rectangles, imageScale, isProcessing, sliders,
                   resultsVisible, timerPending, params>>
    /\ PureIdle

\* the user moves a slider
SetSlider(id, text) ==
    /\ sliders[id] # text
    /\ sliders' = [sliders EXCEPT ![id] = text]
    /\ lastOp' = "input"
    /\ UNCHANGED <<image, rectangles, imageScale, isProcessing, statusMessage,
                   resultsVisible, timerPending, params>>
    /\ PureIdle

\* detectRectangles returns at once: no image, or a run is in flight
DetectIgnored ==
    /\ image.null \/ isProcessing
    /\ lastOp' = "detectRectangles"
    /\ UNCHANGED <<image, rectangles, imageScale, isProcessing, sliders, statusMessage,
                   resultsVisible, timerPending, params>>
    /\ PureIdle

\* variant: the return on a validation failure skips the finally block
RejectParametersKeepsLock(v) ==
    /\ statusMessage' = Status(v.error, "error")
    /\ isProcessing' = TRUE
    /\ UNCHANGED <<timerPending, params, rectangles>>

\* detectRectangles when validation fails: the error status, the return, and the
\* finally block
RejectParameters(v) ==
    /\ statusMessage' = Status(v.error, "error")
    /\ isProcessing' = FALSE
    /\ UNCHANGED <<timerPending, params, rectangles>>

\* detectRectangles when validation passes, up to its await: performDetection has
\* set the timer
StartRun(p) ==
    /\ statusMessage' = Status("Detecting rectangles...", "info")
    /\ isProcessing' = TRUE
    /\ timerPending' = TRUE
    /\ params' = p
    /\ UNCHANGED rectangles

\* variant: detectRectangles without the test of isProcessing
DetectStartUnguarded ==
    /\ ~image.null
    /\ LET p == getDetectionParameters(sliders)
           v == validateDetectionParams(p)
       IN  IF ~v.valid THEN RejectParameters(v) ELSE StartRun(p)
    /\ lastOp' = "detectRectangles"
    /\ UNCHANGED <<image, imageScale, sliders, resultsVisible>>
    /\ PureIdle

\* detectRectangles with an image and no run in flight
DetectStart ==
    /\ ~image.null /\ ~isProcessing
    /\ LET p == getDetectionParameters(sliders)
           v == validateDetectionParams(p)
       IN  IF ~v.valid THEN RejectParameters(v) ELSE StartRun(p)
    /\ lastOp' = "detectRectangles"
    /\ UNCHANGED <<image, imageScale, sliders, resultsVisible>>
    /\ PureIdle

\* detectRectangles from its await to its end, the promise resolved with `found`:
\* visualizeResults (which returns at once without an image), showResults, the
\* status and the finally block
ResumeWith(found) ==
    /\ rectangles' = found
    /\ resultsVisible' = TRUE
    /\ statusMessage' = IF Len(found) > 0
                        THEN Status("Found rectangles", "success")
                        ELSE Status("No rectangles detected. Try adjusting parameters.", "info")
    /\ isProcessing' = FALSE

\* variant: the timer callback without its try/catch: a throw of
\* detectRectanglesInImage leaves the promise pending and the await never returns
DetectFinishWithoutCatch ==
    /\ timerPending
    /\ IF image.null
       THEN UNCHANGED <<rectangles, resultsVisible, statusMessage, isProcessing>>
       ELSE ResumeWith(detectRectanglesInImage(image, params))
    /\ timerPending' = FALSE
    /\ lastOp' = "performDetection"
    /\ UNCHANGED <<image, imageScale, sliders, params>>
    /\ PureIdle

\* the timer of performDetection fires, the promise resolves and detectRectangles
\* runs on to its end
DetectFinish ==
    /\ timerPending
    /\ ResumeWith(performDetection(image, params))
    /\ timerPending' = FALSE
    /\ lastOp' = "performDetection"
    /\ UNCHANGED <<image, imageScale, sliders, params>>
    /\ PureIdle

\* clear
Clear ==
    /\ image' = Null
    /\ rectangles' = <<>>
    /\ imageScale' = "null"
    /\ resultsVisible' = FALSE
    /\ statusMessage' = Status("Cleared all data", "info")
    /\ lastOp' = "clear"
    /\ UNCHANGED <<isProcessing, sliders, timerPending, params>>
    /\ PureIdle

----------------------------------------------------------------------------
(* The specification of the detector; the pure functions stay idle *)

ParIdle == pSliders = InitialSliders /\ pParams = Null /\ pValidation = Null /\ pDone = FALSE
ValIdle == /\ vPolygon = <<>> /\ vMinArea = NaN /\ vMaxAspectRatio = NaN
           /\ vResult = Null /\ vDone = FALSE
FilIdle == /\ fInput = <<>> /\ fThreshold = 0 /\ fList = <<>> /\ fOutput = <<>>
           /\ fAgain = <<>> /\ fStep = 0

PolIdle == aContour = <<>> /\ aResult = <<>> /\ aDone = FALSE /\ aStack = <<>> /\ aCalls = 0

StgIdle == /\ sBuffer = <<>> /\ sWidth = 0 /\ sHeight = 0 /\ sArg = 0
           /\ sOut = <<>> /\ sDone = FALSE
RunIdle == /\ rImage = Null /\ rParams = Null /\ rStage = "idle"
           /\ rGray = <<>> /\ rBlurred = <<>> /\ rEdges = <<>> /\ rContours = <<>>
           /\ rRectangles = <<>> /\ rHistory = <<>>

Init == DetInit /\ ParIdle /\ ValIdle /\ FilIdle /\ PolIdle /\ StgIdle /\ RunIdle

Next ==
    \/ \E img \in Images : LoadImage(img)
    \/ LoadImageRejected
    \/ \E id \in DOMAIN SliderTexts : \E text \in SliderTexts[id] : SetSlider(id, text)
    \/ DetectIgnored
    \/ DetectStart
    \/ DetectFinish
    \/ Clear

Spec == Init /\ [][Next]_vars

\* the timer of performDetection fires and visualizeResults or showResults throws:
\* the catch block of detectRectangles shows the error, then the finally block runs
DetectFinishRenderingThrows ==
    /\ timerPending
    /\ rectangles' = performDetection(image, params)
    /\ statusMessage' = Status("Error during detection. Please try again.", "error")
    /\ isProcessing' = FALSE
    /\ timerPending' = FALSE
    /\ lastOp' = "catch"
    /\ UNCHANGED <<image, imageScale, sliders, params, resultsVisible>>
    /\ PureIdle

\* the detector with rendering that may throw and a timer that fires once set, on
\* two images and with the sensitivity slider moved between a value validation
\* rejects and one it accepts
NextOrThrow ==
    \/ \E img \in LiveImages : LoadImage(img)
    \/ LoadImageRejected
    \/ \E text \in SliderTexts.sensitivity : SetSlider("sensitivity", text)
    \/ DetectIgnored
    \/ DetectStart
    \/ DetectFinish
    \/ DetectFinishRenderingThrows
    \/ Clear

\* the callback given to setTimeout runs: the steps that end a pending timer are
\* those of DetectFinish and DetectFinishRenderingThrows, enabled while it is pending
TimerFires == timerPending /\ timerPending' = FALSE

SpecLive ==
    /\ Init
    /\ [][NextOrThrow]_vars
    /\ WF_timerPending(TimerFires)

----------------------------------------------------------------------------
(* validateDetectionParams on its own *)

ParamsInit ==
    /\ DetInit /\ ValIdle /\ FilIdle /\ PolIdle /\ StgIdle /\ RunIdle
    /\ pSliders \in [sensitivity : SensitivityTexts, minArea : MinAreaTexts,
                     aspectRatio : AspectRatioTexts]
    /\ pParams = Null /\ pValidation = Null /\ pDone = FALSE

ValidateParams ==
    /\ ~pDone
    /\ pParams' = getDetectionParameters(pSliders)
    /\ pValidation' = validateDetectionParams(pParams')
    /\ pDone' = TRUE
    /\ UNCHANGED <<pSliders, detVars, valVars, filVars, polVars, stgVars, runVars>>

SpecParams == ParamsInit /\ [][ValidateParams]_vars

----------------------------------------------------------------------------
(* validateRectangularShape on its own *)

ShapeInit ==
    /\ DetInit /\ ParIdle /\ FilIdle /\ PolIdle /\ StgIdle /\ RunIdle
    /\ vPolygon \in ValidatorPolygons
    /\ vMinArea \in ValidatorMinAreas
    /\ vMaxAspectRatio \in ValidatorAspectRatios
    /\ vResult = Null /\ vDone = FALSE

ValidateShape ==
    /\ ~vDone
    /\ vResult' = validateRectangularShape(vPolygon, vMinArea, vMaxAspectRatio)
    /\ vDone' = TRUE
    /\ UNCHANGED <<vPolygon, vMinArea, vMaxAspectRatio, detVars, parVars, filVars, polVars, stgVars, runVars>>

SpecShape == ShapeInit /\ [][ValidateShape]_vars

----------------------------------------------------------------------------
(* filterOverlappingRectangles on its own, then on its own output *)

ResolverInit ==
    /\ DetInit /\ ParIdle /\ ValIdle /\ PolIdle /\ StgIdle /\ RunIdle
    /\ fInput \in ResolverInputs
    /\ fThreshold \in ResolverThresholds
    /\ fList = fInput /\ fOutput = <<>> /\ fAgain = <<>> /\ fStep = 0

\* filtered = filterOverlappingRectangles(list, threshold)
FilterOnce ==
    /\ fStep = 0
    /\ LET r == filterOverlappingRectangles(fList, fThreshold)
       IN  fList' = r.rectangles /\ fOutput' = r.filtered
    /\ fStep' = 1
    /\ UNCHANGED <<fInput, fThreshold, fAgain, detVars, parVars, valVars, polVars, stgVars, runVars>>

\* again = filterOverlappingRectangles(a copy of filtered, threshold)
FilterAgain ==
    /\ fStep = 1
    /\ fAgain' = filterOverlappingRectangles(fOutput, fThreshold).filtered
    /\ fStep' = 2
    /\ UNCHANGED <<fInput, fThreshold, fList, fOutput, detVars, parVars, valVars, polVars, stgVars, runVars>>

SpecResolver == ResolverInit /\ [][FilterOnce \/ FilterAgain]_vars

----------------------------------------------------------------------------
(* calculateOverlapRatio on its own *)

OverlapInit ==
    /\ DetInit /\ ParIdle /\ ValIdle /\ PolIdle /\ StgIdle /\ RunIdle
    /\ fInput \in OverlapBoxes \X OverlapBoxes
    /\ fThreshold = 0 /\ fList = <<>> /\ fOutput = <<>> /\ fAgain = <<>> /\ fStep = 0

CalculateOverlapRatio ==
    /\ fStep = 0
    /\ fOutput' = calculateOverlapRatio(fInput[1], fInput[2])
    /\ fStep' = 1
    /\ UNCHANGED <<fInput, fThreshold, fList, fAgain, detVars, parVars, valVars, polVars,
                   stgVars, runVars>>

SpecOverlap == OverlapInit /\ [][CalculateOverlapRatio]_vars

----------------------------------------------------------------------------
(* approximatePolygon on its own, with the epsilon of findRectanglesFromEdges *)

PolygonInit ==
    /\ DetInit /\ ParIdle /\ ValIdle /\ FilIdle /\ StgIdle /\ RunIdle
    /\ aContour \in SeqsUpTo(ContourPoints, MaxContour)
    /\ aResult = <<>> /\ aDone = FALSE /\ aStack = <<>> /\ aCalls = 0

ApproximatePolygon ==
    /\ ~aDone
    /\ aResult' = approximatePolygon(aContour, PolygonEpsilon)
    /\ aDone' = TRUE
    /\ UNCHANGED <<aContour, aStack, aCalls, detVars, parVars, valVars, filVars, stgVars, runVars>>

SpecPolygon == PolygonInit /\ [][ApproximatePolygon]_vars

----------------------------------------------------------------------------
(* approximatePolygon call by call: every step makes the call whose contour is
   last in aStack and, when that call splits its contour, leaves the contours
   of its two recursive calls there, the left part to be handled first *)

\* contour.slice(0, maxIndex + 1) and contour.slice(maxIndex) of a call that
\* recurses, none for a call that returns at once
SubContours(contour, epsilon) ==
    IF Len(contour) < 3 THEN <<>>
    ELSE LET far == FarthestPoint(contour)
         IN  IF ExceedsThreshold(far.maxDistance, SplitThreshold(contour, epsilon))
             THEN <<SubSeq(contour, far.maxIndex, Len(contour)),
                    SubSeq(contour, 1, far.maxIndex)>>
             ELSE <<>>

RecursionInit ==
    /\ DetInit /\ ParIdle /\ ValIdle /\ FilIdle /\ StgIdle /\ RunIdle
    /\ aContour \in SeqsUpTo(ContourPoints, MaxContour)
    /\ aResult = <<>> /\ aDone = FALSE /\ aStack = <<aContour>> /\ aCalls = 0

ApproximateCall ==
    /\ aStack # <<>>
    /\ aStack' = SubSeq(aStack, 1, Len(aStack) - 1)
                     \o SubContours(aStack[Len(aStack)], PolygonEpsilon)
    /\ aDone' = (aStack' = <<>>)
    /\ aCalls' = aCalls + 1
    /\ UNCHANGED <<aContour, aResult, detVars, parVars, valVars, filVars, stgVars, runVars>>

\* the interpreter goes on with the next call as long as one is left: every
\* step of ApproximateCall is a step of CallMade and both are enabled together
CallMade == aStack # <<>> /\ aCalls' = aCalls + 1

SpecRecursion == RecursionInit /\ [][ApproximateCall]_vars /\ WF_aCalls(CallMade)

----------------------------------------------------------------------------
(* The stages of the pipeline on their own *)

StageInit ==
    /\ DetInit /\ ParIdle /\ ValIdle /\ FilIdle /\ PolIdle /\ RunIdle
    /\ sWidth \in 1..MaxSide
    /\ sHeight \in 1..MaxSide
    /\ sOut = <<>> /\ sDone = FALSE

StageFrame == UNCHANGED <<sBuffer, sWidth, sHeight, sArg, detVars, parVars, valVars,
                          filVars, polVars, runVars>>

\* gaussianBlur
BlurInit ==
    /\ StageInit
    /\ sBuffer \in GrayBuffers(sWidth, sHeight)
    /\ sArg \in BlurRadii

GaussianBlur ==
    /\ ~sDone
    /\ sOut' = gaussianBlur(sBuffer, sWidth, sHeight, sArg)
    /\ sDone' = TRUE
    /\ StageFrame

SpecBlur == BlurInit /\ [][GaussianBlur]_vars

\* simpleEdgeDetection
EdgesInit ==
    /\ StageInit
    /\ sBuffer \in GrayBuffers(sWidth, sHeight)
    /\ sArg \in EdgeThresholds

SimpleEdgeDetection ==
    /\ ~sDone
    /\ sOut' = simpleEdgeDetection(sBuffer, sWidth, sHeight, sArg)
    /\ sDone' = TRUE
    /\ StageFrame

SpecEdges == EdgesInit /\ [][SimpleEdgeDetection]_vars

\* findContours, and the contours findRectanglesFromEdges then works on
ContoursInit ==
    /\ DetInit /\ ParIdle /\ ValIdle /\ FilIdle /\ PolIdle /\ RunIdle
    /\ \/ /\ sBuffer \in SegmentMasks
          /\ sWidth = MaxSegment + 2 /\ sHeight = 4 /\ sArg = 0
       \/ \E size \in BlockSizes : \E gap \in BlockGaps :
              /\ sBuffer = BlockMask(size[1], size[2], gap)
              /\ sWidth = size[1] /\ sHeight = size[2] /\ sArg = gap
    /\ sOut = <<>> /\ sDone = FALSE

TraceContours ==
    /\ ~sDone
    /\ LET c == ScanContours(sBuffer, sWidth, sHeight)
       IN  sOut' = [traced |-> c.traced, contours |-> c.contours,
                    passed |-> SelectSeq(c.contours, PassedOn)]
    /\ sDone' = TRUE
    /\ StageFrame

SpecContours == ContoursInit /\ [][TraceContours]_vars

----------------------------------------------------------------------------
(* detectRectanglesInImage on drawn images (detector.js:278-323), one stage of  *)
(* the pipeline after the other                                                 *)

RunFrame == UNCHANGED <<detVars, parVars, valVars, filVars, polVars, stgVars>>

\* a call of detectRectanglesInImage with img loaded and p as params; of the
\* buffers gray, blurred and edges each is held from the stage that makes it to
\* the one stage that reads it
CallOn(img, p) ==
    /\ rImage = img /\ rParams = p /\ rStage = "called"
    /\ rGray = <<>> /\ rBlurred = <<>> /\ rEdges = <<>> /\ rContours = <<>>
    /\ rRectangles = <<>>

\* drawImage, getImageData and toGrayscale
Grayscale ==
    /\ rStage = "called"
    /\ rGray' = toGrayscale(getImageData(rImage), rImage.width, rImage.height)
    /\ rStage' = "gray"
    /\ UNCHANGED <<rImage, rParams, rBlurred, rEdges, rContours, rRectangles, rHistory>>
    /\ RunFrame

Blur ==
    /\ rStage = "gray"
    /\ rBlurred' = gaussianBlur(rGray, rImage.width, rImage.height, BlurRadius)
    /\ rStage' = "blurred"
    /\ rGray' = <<>>
    /\ UNCHANGED <<rImage, rParams, rEdges, rContours, rRectangles, rHistory>>
    /\ RunFrame

DetectEdges ==
    /\ rStage = "blurred"
    /\ rEdges' = simpleEdgeDetection(rBlurred, rImage.width, rImage.height,
                                     rParams.sensitivity)
    /\ rStage' = "edges"
    /\ rBlurred' = <<>>
    /\ UNCHANGED <<rImage, rParams, rGray, rContours, rRectangles, rHistory>>
    /\ RunFrame

\* findRectanglesFromEdges: its call of findContours
FindContours ==
    /\ rStage = "edges"
    /\ rContours' = findContours(rEdges, rImage.width, rImage.height)
    /\ rStage' = "contours"
    /\ rEdges' = <<>>
    /\ UNCHANGED <<rImage, rParams, rGray, rBlurred, rRectangles, rHistory>>
    /\ RunFrame

\* findRectanglesFromEdges: its loop over the contours
CollectCandidates ==
    /\ rStage = "contours"
    /\ rRectangles' = findRectanglesFromEdges(ContourPolygons(rContours),
                                              rParams.minArea, rParams.aspectRatio)
    /\ rStage' = "rectangles"
    /\ UNCHANGED <<rImage, rParams, rGray, rBlurred, rEdges, rContours, rHistory>>
    /\ RunFrame

\* filterOverlappingRectangles, slice(0, 10) and the return
ReturnFiltered ==
    /\ rStage = "rectangles"
    /\ LET r == filterOverlappingRectangles(rRectangles, DefaultOverlapThreshold)
       IN  /\ rRectangles' = r.rectangles
           /\ rHistory' = Append(rHistory, [image |-> rImage, params |-> rParams,
                                            result |-> Slice(r.filtered, ResultLimit)])
    /\ rStage' = "returned"
    /\ UNCHANGED <<rImage, rParams, rGray, rBlurred, rEdges, rContours>>
    /\ RunFrame

PipelineIdle == DetInit /\ ParIdle /\ ValIdle /\ FilIdle /\ PolIdle /\ StgIdle

PipelineInit ==
    /\ PipelineIdle
    /\ \E img \in UniformImages : \E p \in RunParams : CallOn(img, p)
    /\ rHistory = <<>>

PipelineNext ==
    \/ Grayscale
    \/ Blur
    \/ DetectEdges
    \/ FindContours
    \/ CollectCandidates
    \/ ReturnFiltered

SpecPipeline == PipelineInit /\ [][PipelineNext]_vars

\* the same pipeline on images with something drawn on them
SceneInit ==
    /\ PipelineIdle
    /\ \/ \E img \in SmallScenes : \E p \in RunParams : CallOn(img, p)
       \/ \E stroke \in 1..MaxStroke : CallOn(OutlineScene(stroke), OutlineParams)
    /\ rHistory = <<>>

SpecScene == SceneInit /\ [][PipelineNext]_vars

----------------------------------------------------------------------------
(* detectRectanglesInImage called several times in a row on the same detector *)

RunsInit == PipelineIdle /\ RunIdle

DetectRectanglesInImage ==
    /\ Len(rHistory) < MaxRuns
    /\ \E img \in PoolImages : \E p \in RepeatParams :
           /\ rImage' = img
           /\ rParams' = p
           /\ rHistory' = Append(rHistory, [image |-> img, params |-> p,
                                            result |-> detectRectanglesInImage(img, p)])
    /\ rStage' = "returned"
    /\ UNCHANGED <<rGray, rBlurred, rEdges, rContours, rRectangles>>
    /\ RunFrame

SpecRuns == RunsInit /\ [][DetectRectanglesInImage]_vars

----------------------------------------------------------------------------
(* Properties *)

InRange(n, lo, hi) == ~n.nan /\ lo <= n.v /\ n.v <= hi

\* the parameter domain: sensitivity in [10, 300], minArea in [100, 50000],
\* aspectRatio in [1, 20]
ParamsInDomain(p) ==
    /\ InRange(p.sensitivity, 10, 300)
    /\ InRange(p.minArea, 100, 50000)
    /\ InRange(p.aspectRatio, 1 * Scale, 20 * Scale)

\* the run of performDetection has just ended, on the image still loaded and with
\* the parameters in params
RunEnded == lastOp = "performDetection"

\* C1: every detection a run returns under parameters of the domain has
\* area >= minArea and longer side / shorter side <= aspectRatio
C1_SurvivorsMeetFilters ==
    (RunEnded /\ ParamsInDomain(params)) =>
        \A i \in 1..Len(rectangles) :
            LET r == rectangles[i]
            IN  /\ r.area >= params.minArea.v
                /\ Min2(r.width, r.height) > 0
                /\ Max2(r.width, r.height) * Scale
                       <= params.aspectRatio.v * Min2(r.width, r.height)

\* a run returned detections and kept out a quadrilateral for its area or its shape
C1_Witness ==
    /\ RunEnded /\ ParamsInDomain(params) /\ ~image.null
    /\ Len(rectangles) > 0
    /\ \E i \in 1..Len(image.polygons) :
          /\ ~validateRectangularShape(image.polygons[i], NaN, NaN).null
          /\ validateRectangularShape(image.polygons[i], params.minArea,
                                      params.aspectRatio).null

\* C2: validateDetectionParams accepts a parameter set exactly when every
\* parameter is a number of its range; NaN is rejected
C2_AcceptsExactlyTheDomain ==
    pDone => (pValidation.valid <=> ParamsInDomain(pParams))

\* the detect click that just ran found parameters validation rejects
InvalidDetectStep ==
    /\ lastOp' = "detectRectangles"
    /\ ~image.null /\ ~isProcessing
    /\ ~validateDetectionParams(getDetectionParameters(sliders)).valid

\* C3: a detect request whose parameters fail validation starts no run (no timer,
\* no pipeline), leaves the stored detections as they were, shows an error status
\* and ends with isProcessing false
C3_InvalidParamsFailFast ==
    [][InvalidDetectStep =>
          /\ rectangles' = rectangles
          /\ ~timerPending'
          /\ ~isProcessing'
          /\ statusMessage'.type = "error"]_vars

\* a detect request was rejected while detections of an earlier run are stored
C3_Witness ==
    /\ lastOp = "detectRectangles"
    /\ statusMessage.type = "error"
    /\ ~validateDetectionParams(getDetectionParameters(sliders)).valid
    /\ Len(rectangles) > 0
    /\ ~isProcessing /\ ~timerPending

\* n is a number below lo or above hi
OutsideRange(n, lo, hi) == ~n.nan /\ (n.v < lo \/ n.v > hi)

\* the reasons of the fields of p that are numbers outside their range
ViolatedReasons(p) ==
    (IF OutsideRange(p.sensitivity, 10, 300) THEN {SensitivityError} ELSE {})
    \cup (IF OutsideRange(p.minArea, 100, 50000) THEN {MinAreaError} ELSE {})
    \cup (IF OutsideRange(p.aspectRatio, 1 * Scale, 20 * Scale)
          THEN {AspectRatioError} ELSE {})

\* the reasons a validation result carries
ReportedReasons(v) == IF v.valid THEN {} ELSE {v.error}

\* C4: when more than one parameter is a number outside its range, the validation
\* result carries the reason of every violated field, not of the first only
C4_ReasonPerViolatedField ==
    (pDone /\ Cardinality(ViolatedReasons(pParams)) > 1) =>
        ViolatedReasons(pParams) \subseteq ReportedReasons(pValidation)

\* C5: no two rectangles of the resolver's output overlap by more than the
\* threshold; of two candidates that do, with different confidences, the output is
\* the one of higher confidence alone
C5_NoOverlapInOutput ==
    fStep >= 1 =>
        /\ \A i \in 1..Len(fOutput) : \A j \in 1..Len(fOutput) :
              i # j => ~OverlapExceeds(fOutput[i], fOutput[j], fThreshold)
        /\ ( /\ Len(fInput) = 2
             /\ OverlapExceeds(fInput[1], fInput[2], fThreshold)
             /\ fInput[1].confidence # fInput[2].confidence )
           => fOutput = << IF fInput[1].confidence > fInput[2].confidence
                           THEN fInput[1] ELSE fInput[2] >>

\* the resolver dropped the second, less confident, of two overlapping candidates
\* given in ascending order of confidence
C5_Witness ==
    /\ fStep >= 1
    /\ Len(fInput) = 2
    /\ OverlapExceeds(fInput[1], fInput[2], fThreshold)
    /\ fInput[1].confidence < fInput[2].confidence
    /\ fOutput = <<fInput[2]>>

\* C6: the resolver applied to its own output, with the same threshold, returns
\* that output: the same rectangles in the same order
C6_ResolverIdempotent == fStep = 2 => fAgain = fOutput

\* the resolver ran twice on a list from which the first run removed a candidate
\* and kept two of equal confidence
C6_Witness ==
    /\ fStep = 2
    /\ Len(fOutput) < Len(fInput)
    /\ \E i \in 1..Len(fOutput) : \E j \in 1..Len(fOutput) :
          i # j /\ fOutput[i].confidence = fOutput[j].confidence

\* the candidates the validator accepts among all the polygons, with no limit
RECURSIVE AcceptedCandidates(_, _, _, _, _)
AcceptedCandidates(polygons, i, found, minArea, maxAspectRatio) ==
    IF i > Len(polygons) THEN found
    ELSE LET rect == validateRectangularShape(polygons[i], minArea, maxAspectRatio)
         IN  AcceptedCandidates(polygons, i + 1,
                 IF rect.null THEN found
                 ELSE Append(found, createRectangleObject(rect, Len(found))),
                 minArea, maxAspectRatio)

\* C7: a run returns at most 10 detections: the 10 most confident survivors of the
\* overlap resolution of all the candidates the validator accepts for the image
C7_TopTenOfAllCandidates ==
    (RunEnded /\ ~image.null /\ ParamsInDomain(params)) =>
        /\ Len(rectangles) <= ResultLimit
        /\ rectangles =
              Slice(filterOverlappingRectangles(
                        AcceptedCandidates(image.polygons, 1, <<>>, params.minArea,
                                           params.aspectRatio),
                        DefaultOverlapThreshold).filtered,
                    ResultLimit)

\* the position in the input list of a candidate of the output
InputIndex(r) == r.id[2]

\* C8: the resolver's output is in order of non-increasing confidence, and
\* candidates of equal confidence are in the order they had in the input
C8_OutputOrdered ==
    fStep >= 1 =>
        \A i \in 1..Len(fOutput) : \A j \in 1..Len(fOutput) :
            i < j => \/ fOutput[i].confidence > fOutput[j].confidence
                     \/ /\ fOutput[i].confidence = fOutput[j].confidence
                        /\ InputIndex(fOutput[i]) < InputIndex(fOutput[j])

\* the output holds a pair the sort moved and a pair of equal confidence
C8_Witness ==
    /\ fStep >= 1
    /\ Len(fOutput) = 3
    /\ InputIndex(fOutput[1]) > InputIndex(fOutput[2])
    /\ fOutput[2].confidence = fOutput[3].confidence

\* C9: a polygon whose vertex count is not 4 yields no candidate, whatever minArea
\* and maxAspectRatio are
C9_OnlyQuadrilaterals == (vDone /\ Len(vPolygon) # 4) => vResult.null

\* a polygon of 5 vertices was rejected whose first 4 vertices are accepted
C9_Witness ==
    /\ vDone /\ Len(vPolygon) = 5 /\ vResult.null
    /\ ~validateRectangularShape(SubSeq(vPolygon, 1, 4), vMinArea, vMaxAspectRatio).null

\* C10: a candidate has confidence in [0.3, 1], and there is one only when the
\* average vertex-to-corner distance is below sqrt(area) * 0.1
C10_ConfidenceRange ==
    (vDone /\ ~vResult.null) =>
        /\ (3 * Scale) \div 10 <= vResult.confidence
        /\ vResult.confidence <= Scale
        /\ AvgDistance(vPolygon) < Tolerance(vResult.area)

\* a candidate whose distance ratio is above 0.7 was given the confidence 0.3
C10_Witness ==
    /\ vDone /\ ~vResult.null
    /\ vResult.confidence = (3 * Scale) \div 10
    /\ 10 * AvgDistance(vPolygon) > 7 * Tolerance(vResult.area)

\* C11: approximatePolygon returns no more vertices than the contour has points, at
\* least 2 for a contour of at least 2 points, and a 2-point contour unchanged
C11_VertexCountBounds ==
    aDone => /\ Len(aResult) <= Len(aContour)
             /\ Len(aContour) >= 2 => Len(aResult) >= 2
             /\ Len(aContour) = 2 => aResult = aContour

\* a contour is split, and the simplification drops one of its points
C11_Witness ==
    /\ aDone
    /\ Len(aResult) >= 3
    /\ Len(aResult) < Len(aContour)

\* the pixel at index i lies within `radius` of the border of a width x height buffer
NearBorder(i, width, height, radius) ==
    \/ i % width < radius \/ i % width >= width - radius
    \/ i \div width < radius \/ i \div width >= height - radius

\* C12: the output of gaussianBlur has as many pixels as the input, and every pixel
\* within `radius` of the border has the value of the corresponding input pixel
C12_BorderCopiedFromSource ==
    sDone => /\ DOMAIN sOut = 0..(sWidth * sHeight - 1)
             /\ \A i \in DOMAIN sOut :
                    NearBorder(i, sWidth, sHeight, sArg) => sOut[i] = sBuffer[i]

\* the image of a run is uniform: every pixel has the background colour
IsUniform(img) == img.ink = img.background \/ img.stroke = 0

OnOutlineScene(run) ==
    /\ \E stroke \in 1..MaxStroke : run.image = OutlineScene(stroke)
    /\ run.params = OutlineParams

\* C14: on the 200x150 white image with one black 80x50 rectangle outline the
\* pipeline returns exactly one detection, of width within 5 px of 80, height
\* within 5 px of 50 and confidence at least 0.3
C14_OutlineDetectedOnce ==
    \A i \in 1..Len(rHistory) :
        OnOutlineScene(rHistory[i]) =>
            /\ Len(rHistory[i].result) = 1
            /\ Abs(rHistory[i].result[1].width - 80) <= 5
            /\ Abs(rHistory[i].result[1].height - 50) <= 5
            /\ 10 * rHistory[i].result[1].confidence >= 3 * Scale

\* C15: when a stage of the pipeline throws during a run (the image was removed
\* while the run was in flight), the run completes with an empty list:
\* performDetection resolves with [], detectRectangles runs on to its end without
\* an error status, and isProcessing is false again
C15_ThrowGivesEmptyRun ==
    (lastOp = "performDetection" /\ image.null) =>
        /\ rectangles = <<>>
        /\ ~isProcessing
        /\ ~timerPending
        /\ statusMessage.type # "error"

\* the timer fired after clear had removed the image of a run in flight
C15_Witness ==
    /\ lastOp = "performDetection"
    /\ image.null
    /\ params # Null
    /\ resultsVisible

\* pixel i lies on the 1-pixel border ring of a width x height buffer
OnBorderRing(i, width, height) ==
    \/ i % width = 0 \/ i % width = width - 1
    \/ i \div width = 0 \/ i \div width = height - 1

\* C16: every value of the buffer simpleEdgeDetection returns is 0 or 255, and
\* every pixel of the border ring is 0, whatever the input buffer and threshold
C16_EdgeMaskBinaryWithZeroRing ==
    sDone =>
        /\ DOMAIN sOut = 0..(sWidth * sHeight - 1)
        /\ \A i \in DOMAIN sOut :
               /\ sOut[i] \in {0, 255}
               /\ OnBorderRing(i, sWidth, sHeight) => sOut[i] = 0

\* the detector has marked some interior pixels as edges and left others unmarked
C16_Witness ==
    /\ sDone
    /\ \E i \in DOMAIN sOut : sOut[i] = 255
    /\ \E i \in DOMAIN sOut : ~OnBorderRing(i, sWidth, sHeight) /\ sOut[i] = 0

\* contour c is among the contours of the list
Among(c, list) == \E i \in 1..Len(list) : list[i] = c

\* C17: a traced contour is discarded if and only if it has fewer than 10 points:
\* every traced contour of 10 or more points is returned by findContours and goes
\* on to approximatePolygon and validateRectangularShape, and no shorter one does
C17_DiscardedIffFewerThanTen ==
    sDone =>
        \A i \in 1..Len(sOut.traced) :
            LET c == sOut.traced[i]
            IN  IF Len(c) < 10
                THEN ~Among(c, sOut.contours) /\ ~Among(c, sOut.passed)
                ELSE Among(c, sOut.contours) /\ Among(c, sOut.passed)

\* the unit cells a rectangle covers
Cells(rect) ==
    {<<i, j>> : i \in rect.x..(rect.x + rect.width - 1),
                j \in rect.y..(rect.y + rect.height - 1)}

\* C18: calculateOverlapRatio(a, b) is the area of the intersection over the
\* smaller of the two areas; it is exactly 1 for a rectangle a of positive width
\* and height that lies inside b, and 0 for rectangles with an empty intersection
C18_OverlapOverSmallerArea ==
    fStep = 1 =>
        LET a == fInput[1]
            b == fInput[2]
            intersection == Cardinality(Cells(a) \cap Cells(b))
            smaller == Min2(Cardinality(Cells(a)), Cardinality(Cells(b)))
        IN  /\ smaller > 0 => fOutput.num * smaller = intersection * fOutput.den
            /\ fOutput.den > 0
            /\ (Cells(a) # {} /\ Cells(a) \subseteq Cells(b)) => fOutput.num = fOutput.den
            /\ intersection = 0 => fOutput.num = 0

\* the ratio of a rectangle inside a larger one has been computed
C18_Witness ==
    /\ fStep = 1
    /\ Cells(fInput[1]) # {}
    /\ Cells(fInput[1]) \subseteq Cells(fInput[2])
    /\ Cells(fInput[1]) # Cells(fInput[2])
    /\ fOutput.num = fOutput.den

C20_ThresholdOfOriginalContour ==
    aDone =>
        \A threshold \in SplitThresholds(aContour, PolygonEpsilon) :
            threshold = SplitThreshold(aContour, PolygonEpsilon)

\* C21: for a uniform solid-colour image the edge mask that toGrayscale,
\* gaussianBlur with radius 1 and simpleEdgeDetection with a threshold between 10
\* and 300 produce has no pixel set
C21_UniformImageHasNoEdges ==
    (rStage = "edges" /\ IsUniform(rImage)
        /\ rParams.sensitivity.v >= 10 /\ rParams.sensitivity.v <= 300)
        => \A i \in DOMAIN rEdges : rEdges[i] = 0

\* the indexes of the set pixels of the mask that are 8-adjacent to point p
SetNeighbours(p, edges, width, height) ==
    {n[2] * width + n[1] :
        n \in {q \in {<<p[1] + dx, p[2] + dy>> : dx \in {-1, 0, 1}, dy \in {-1, 0, 1}} :
                  /\ q[1] >= 0 /\ q[1] < width /\ q[2] >= 0 /\ q[2] < height
                  /\ edges[q[2] * width + q[1]] # 0}}

\* the indexes of the points of a contour
PixelsOf(contour, width) ==
    {contour[j][2] * width + contour[j][1] : j \in 1..Len(contour)}

\* the pixels visited by the first k walks
VisitedBy(traced, k, width) == UNION {PixelsOf(traced[i], width) : i \in 1..k}

\* C22: every contour traceContour returns has at most 1000 points; a walk that
\* ends with fewer has left no unvisited edge pixel next to any of its points
C22_ContourCapped ==
    sDone =>
        \A i \in 1..Len(sOut.traced) :
            LET c == sOut.traced[i]
                visited == VisitedBy(sOut.traced, i, sWidth)
            IN  /\ Len(c) <= ContourLimit
                /\ Len(c) < ContourLimit =>
                       \A j \in 1..Len(c) :
                           SetNeighbours(c[j], sBuffer, sWidth, sHeight) \subseteq visited

\* one walk was stopped by the cap and another ended on its own
C22_Witness ==
    /\ sDone
    /\ \E i \in 1..Len(sOut.traced) : Len(sOut.traced[i]) = ContourLimit
    /\ \E i \in 1..Len(sOut.traced) : Len(sOut.traced[i]) < ContourLimit

\* C23: filterOverlappingRectangles leaves the list it was given as it was: after
\* the call the caller's list holds the same elements in the same order
C23_CallerListUntouched ==
    fStep = 1 => fList = fInput

\* a call of detectRectangles returned at once
IgnoredCall == lastOp' = "detectRectangles" /\ (image.null \/ isProcessing)

\* C24: at most one detection run is in flight: a call of detectRectangles made
\* while isProcessing is true or while no image is loaded starts no run and leaves
\* image, rectangles, imageScale and isProcessing (and the pending timer, the
\* parameters and the status) as they were; a timer is pending only while
\* isProcessing is true
C24_OneRunInFlight ==
    /\ [][IgnoredCall => UNCHANGED <<image, rectangles, imageScale, isProcessing,
                                     timerPending, params, statusMessage,
                                     resultsVisible>>]_vars
    /\ [](timerPending => isProcessing)

\* detectRectangles was called while a run was in flight, after the status of the
\* run's start had been replaced
C24_Witness ==
    /\ lastOp = "detectRectangles"
    /\ isProcessing /\ timerPending
    /\ ~image.null
    /\ statusMessage.text # "Detecting rectangles..."

\* C25: a detection run that has set isProcessing to true eventually sets it back
\* to false, whether validation fails, the run succeeds, the pipeline throws or
\* the rendering throws
C25_LockReleased == isProcessing ~> ~isProcessing

\* the lock was released on the path through the catch block of detectRectangles
C25_Witness ==
    /\ lastOp = "catch"
    /\ ~isProcessing
    /\ statusMessage.type = "error"

\* C26: from clear() until the next image is loaded (the detector holds no image)
\* the detector holds no detections and the results panel is hidden, also when
\* clear() came while a run was in flight
C26_ClearedStaysCleared ==
    image.null => (rectangles = <<>> /\ ~resultsVisible)

\* the parameters detectRectangles can read from the sliders of the detector
SliderParams ==
    {getDetectionParameters([sensitivity |-> s, minArea |-> m, aspectRatio |-> a]) :
        s \in SliderTexts.sensitivity, m \in SliderTexts.minArea,
        a \in SliderTexts.aspectRatio}

\* C27: whenever the stored detection list is not empty, it is what the pipeline
\* computes from the image the detector holds (under parameters of the sliders):
\* no detections of an earlier image stay stored
C27_DetectionsOfCurrentImage ==
    rectangles # <<>> =>
        /\ ~image.null
        /\ \E p \in SliderParams : rectangles = detectRectanglesInImage(image, p)

----------------------------------------------------------------------------
\* C28: approximatePolygon terminates for every finite contour, closed contours
\* and contours with repeated points included: the contour of every recursive
\* call is strictly shorter than the contour of the call that makes it, and
\* the calls to be made run out.
C28_ApproximatePolygonTerminates ==
    /\ [][\A k \in Len(aStack)..Len(aStack') :
              Len(aStack'[k]) < Len(aStack[Len(aStack)])]_vars
    /\ <>aDone

\* a closed contour with a repeated point has been split and all its calls made
C28_Witness ==
    /\ aDone
    /\ Len(aContour) >= 4
    /\ aContour[1] = aContour[Len(aContour)]
    /\ \E i, j \in 2..Len(aContour) - 1 : i # j /\ aContour[i] = aContour[j]
    /\ SubContours(aContour, PolygonEpsilon) # <<>>

----------------------------------------------------------------------------
\* the indexes of the set pixels of the mask that are not on its border
SetInteriorPixels(edges, width, height) ==
    {i \in DOMAIN edges :
        /\ edges[i] # 0
        /\ i % width >= 1 /\ i % width < width - 1
        /\ i \div width >= 1 /\ i \div width < height - 1}

\* C29: within one findContours call no pixel is twice in a walk of
\* traceContour or in two walks, every point of a walk is a set pixel of the
\* mask, the contours returned are walks, and every set pixel off the border is
\* in a walk: the walks partition those pixels, also when the cap of 1000
\* points splits a connected component.
C29_WalksPartitionEdgePixels ==
    sDone =>
        LET traced == sOut.traced
            pixels == [i \in 1..Len(traced) |-> PixelsOf(traced[i], sWidth)]
        IN  /\ \A i \in 1..Len(traced) :
                   /\ Cardinality(pixels[i]) = Len(traced[i])
                   /\ \A p \in pixels[i] : sBuffer[p] # 0
                   /\ \A j \in (i + 1)..Len(traced) : pixels[i] \cap pixels[j] = {}
            /\ sOut.contours = SelectSeq(traced, KeptByTracer)
            /\ SetInteriorPixels(sBuffer, sWidth, sHeight)
                   \subseteq UNION {pixels[i] : i \in 1..Len(traced)}

\* the cap has split one connected block of set pixels into two walks
C29_Witness ==
    /\ sDone
    /\ sArg = 0 /\ sWidth = MaxBlockWidth
    /\ Len(sOut.traced) = 2
    /\ Len(sOut.traced[1]) = ContourLimit
    /\ Len(sOut.traced[2]) > 0

----------------------------------------------------------------------------
\* the corners of the bounding box (numbered as in `corners`) that are nearest
\* to point p
NearestCorners(p, corners) ==
    {c \in 1..4 :
        \A d \in 1..4 : SquaredDistance(p, corners[c]) <= SquaredDistance(p, corners[d])}

\* C30: every 4-vertex polygon validateRectangularShape accepts covers the four
\* corners of its bounding box: its four vertices can be given four different
\* corners, each vertex one of the corners nearest to it.
C30_AcceptedCoversFourCorners ==
    (vDone /\ ~vResult.null) =>
        LET corners == Corners(BoundingBox(vPolygon))
        IN  \E f \in [1..4 -> 1..4] :
                /\ \A i, j \in 1..4 : i # j => f[i] # f[j]
                /\ \A i \in 1..4 : f[i] \in NearestCorners(vPolygon[i], corners)

============================================================================
